---------------------------- MODULE Spec2Model ----------------------------
(***************************************************************************)
(* Model of my_parser.py: the regex scanner (Lexer.tokenize) and the       *)
(* recursive-descent parser (Parser.parse and its productions).            *)
(*                                                                         *)
(* Source text is a sequence of one-character strings; offsets into it are *)
(* 0-based as in Python (mo.start(), mo.end()), so the character at offset *)
(* p is code[p + 1].  Text produced by the parser is a sequence of string  *)
(* fragments; appending fragments models Python string concatenation.      *)
(***************************************************************************)
EXTENDS Integers, Sequences, FiniteSets, TLC

VARIABLES
    code,              \* Lexer.code
    scan,              \* offset at which finditer looks for the next match
    line,              \* tokenize: line
    current_position,  \* tokenize: current_position
    tokens,            \* tokenize: tokens
    lex_pc,            \* "scan", "returned" or "raised"
    err_line,          \* line named by the RuntimeError, 0 while none raised
    ptokens,           \* Parser.tokens
    position,          \* Parser.position
    stack,             \* call stack of the productions being parsed, innermost last
    ret,               \* value handed back by the production that has just returned
    fault,             \* "none", or the exception that ended the parse
    dispatched,        \* positions whose token a loop has dispatched on
    lost               \* positions consumed by parse_block after a declaration or an if

lexvars == <<code, scan, line, current_position, tokens, lex_pc, err_line>>

parservars == <<ptokens, position, stack, ret, fault, dispatched, lost>>

vars == <<lexvars, parservars>>

-----------------------------------------------------------------------------
(* Bounds *)

MaxLen == 4

SourceChars == {"i", "f", "1", "\"", " ", "\n", "&", "=", "@"}

-----------------------------------------------------------------------------
(* Character classes used by the patterns *)

Letters ==
    {"a","b","c","d","e","f","g","h","i","j","k","l","m","n","o","p","q","r",
     "s","t","u","v","w","x","y","z",
     "A","B","C","D","E","F","G","H","I","J","K","L","M","N","O","P","Q","R",
     "S","T","U","V","W","X","Y","Z"}

Digits == {"0","1","2","3","4","5","6","7","8","9"}

WordChars == Letters \cup Digits \cup {"_"}

\* membership of character c in a regex character class
InClass(class, c) ==
    CASE class = "digit"    -> c \in Digits               \* \d
      [] class = "word"     -> c \in WordChars            \* \w
      [] class = "nonquote" -> c # "\""                   \* [^"]
      [] class = "blank"    -> c \in {" ", "\t"}          \* [ \t]
      [] OTHER              -> FALSE

\* length of the longest run of characters of a class starting at offset p
RunLen(class, s, p) ==
    CHOOSE n \in 0..(Len(s) - p) :
        /\ \A j \in 1..n : InClass(class, s[p + j])
        /\ (n = Len(s) - p \/ ~InClass(class, s[p + n + 1]))

\* the literal lit occurs in s at offset p
LiteralAt(lit, s, p) ==
    /\ p + Len(lit) <= Len(s)
    /\ \A j \in 1..Len(lit) : s[p + j] = lit[j]

\* regex \b at offset p: exactly one of the neighbouring characters is a word character
WordBoundary(s, p) ==
    LET before == p >= 1 /\ s[p] \in WordChars
        after  == p < Len(s) /\ s[p + 1] \in WordChars
    IN  before # after

-----------------------------------------------------------------------------
(* Lexer.token_specification, in priority order *)

token_specification ==
    << [kind |-> "T_Void",   form |-> "keyword", lits |-> << <<"v","o","i","d">> >>],
       [kind |-> "T_Int",    form |-> "keyword", lits |-> << <<"i","n","t">> >>],
       [kind |-> "T_Bool",   form |-> "keyword", lits |-> << <<"b","o","o","l">> >>],
       [kind |-> "T_If",     form |-> "keyword", lits |-> << <<"i","f">> >>],
       [kind |-> "T_For",    form |-> "keyword", lits |-> << <<"f","o","r">> >>],
       [kind |-> "T_Return", form |-> "keyword", lits |-> << <<"r","e","t","u","r","n">> >>],
       [kind |-> "T_Print",  form |-> "keyword", lits |-> << <<"P","r","i","n","t">> >>],
       [kind |-> "T_LessEqual", form |-> "literal",
            lits |-> << <<"<","=">>, <<">","=">>, <<"=","=">>, <<"!","=">> >>],
       [kind |-> "T_Assign",    form |-> "literal", lits |-> << <<"=">> >>],
       [kind |-> "T_Less",      form |-> "literal", lits |-> << <<"<">> >>],
       [kind |-> "T_Greater",   form |-> "literal", lits |-> << <<">">> >>],
       [kind |-> "T_Add",       form |-> "literal", lits |-> << <<"+">> >>],
       [kind |-> "T_Sub",       form |-> "literal", lits |-> << <<"-">> >>],
       [kind |-> "T_Mul",       form |-> "literal", lits |-> << <<"*">> >>],
       [kind |-> "T_Div",       form |-> "literal", lits |-> << <<"/">> >>],
       [kind |-> "T_Mod",       form |-> "literal", lits |-> << <<"%">> >>],
       [kind |-> "T_And",       form |-> "literal", lits |-> << <<"&","&">> >>],
       [kind |-> "T_Or",        form |-> "literal", lits |-> << <<"|","|">> >>],
       [kind |-> "T_Not",       form |-> "literal", lits |-> << <<"!">> >>],
       [kind |-> "T_Semicolon", form |-> "literal", lits |-> << <<";">> >>],
       [kind |-> "T_Comma",     form |-> "literal", lits |-> << <<",">> >>],
       [kind |-> "T_LParen",    form |-> "literal", lits |-> << <<"(">> >>],
       [kind |-> "T_RParen",    form |-> "literal", lits |-> << <<")">> >>],
       [kind |-> "T_LBrace",    form |-> "literal", lits |-> << <<"{">> >>],
       [kind |-> "T_RBrace",    form |-> "literal", lits |-> << <<"}">> >>],
       [kind |-> "T_IntConstant",    form |-> "digits",  lits |-> << >>],
       [kind |-> "T_StringConstant", form |-> "string",  lits |-> << >>],
       [kind |-> "T_Identifier",     form |-> "ident",   lits |-> << >>],
       [kind |-> "WHITESPACE",       form |-> "blanks",  lits |-> << >>],
       [kind |-> "NEWLINE",          form |-> "newline", lits |-> << >>],
       [kind |-> "MISMATCH",         form |-> "any",     lits |-> << >>] >>

\* \bword\b at offset p: length of the match, 0 when the pattern does not match
KeywordLen(lit, s, p) ==
    IF /\ LiteralAt(lit, s, p)
       /\ WordBoundary(s, p)
       /\ WordBoundary(s, p + Len(lit))
    THEN Len(lit) ELSE 0

\* a|b|c at offset p: the first alternative that occurs there
LiteralLen(lits, s, p) ==
    LET hits == {k \in 1..Len(lits) : LiteralAt(lits[k], s, p)}
    IN  IF hits = {} THEN 0
        ELSE Len(lits[CHOOSE k \in hits : \A m \in hits : k <= m])

\* the string pattern written as "\w*": only word characters between the quotes
StringLenWordsOnly(s, p) ==
    IF p < Len(s) /\ s[p + 1] = "\""
    THEN LET n == RunLen("word", s, p + 1)
         IN  IF p + 1 + n < Len(s) /\ s[p + n + 2] = "\"" THEN n + 2 ELSE 0
    ELSE 0

\* "[^"]*" at offset p: up to the next double quote, 0 when there is none
StringLen(s, p) ==
    IF p < Len(s) /\ s[p + 1] = "\""
    THEN LET n == RunLen("nonquote", s, p + 1)
         IN  IF p + 1 + n < Len(s) THEN n + 2 ELSE 0
    ELSE 0

\* [a-zA-Z_]\w* at offset p
IdentifierLen(s, p) ==
    IF p < Len(s) /\ s[p + 1] \in Letters \cup {"_"}
    THEN 1 + RunLen("word", s, p + 1)
    ELSE 0

\* length matched by entry e of the token specification at offset p (0: no match)
PatternLen(e, s, p) ==
    CASE e.form = "keyword" -> KeywordLen(e.lits[1], s, p)
      [] e.form = "literal" -> LiteralLen(e.lits, s, p)
      [] e.form = "digits"  -> RunLen("digit", s, p)
      [] e.form = "string"  -> StringLen(s, p)
      [] e.form = "ident"   -> IdentifierLen(s, p)
      [] e.form = "blanks"  -> RunLen("blank", s, p)
      [] e.form = "newline" -> IF p < Len(s) /\ s[p + 1] = "\n" THEN 1 ELSE 0
      [] e.form = "any"     -> IF p < Len(s) /\ s[p + 1] # "\n" THEN 1 ELSE 0

\* token_regex at offset p: the first alternative that matches wins
token_regex(s, p) ==
    LET k == CHOOSE k \in 1..Len(token_specification) :
                 /\ PatternLen(token_specification[k], s, p) > 0
                 /\ \A m \in 1..(k - 1) : PatternLen(token_specification[m], s, p) = 0
    IN  [lastgroup |-> token_specification[k].kind,
         start     |-> p,
         end       |-> p + PatternLen(token_specification[k], s, p)]

Token(type, value, ln, start_col, end_col) ==
    [type |-> type, value |-> value, line |-> ln,
     start_col |-> start_col, end_col |-> end_col]

-----------------------------------------------------------------------------
(* Lexer.tokenize: one action per branch of the loop body *)

mo == token_regex(code, scan)

LexNewline ==
    /\ lex_pc = "scan" /\ scan < Len(code)
    /\ mo.lastgroup = "NEWLINE"
    /\ line' = line + 1
    /\ current_position' = mo.end
    /\ scan' = mo.end
    /\ UNCHANGED <<code, tokens, lex_pc, err_line>>
    /\ UNCHANGED parservars

LexWhitespace ==
    /\ lex_pc = "scan" /\ scan < Len(code)
    /\ mo.lastgroup = "WHITESPACE"
    /\ scan' = mo.end
    /\ UNCHANGED <<code, line, current_position, tokens, lex_pc, err_line>>
    /\ UNCHANGED parservars

LexMismatch ==
    /\ lex_pc = "scan" /\ scan < Len(code)
    /\ mo.lastgroup = "MISMATCH"
    /\ lex_pc' = "raised"
    /\ err_line' = line
    /\ UNCHANGED <<code, scan, line, current_position, tokens>>
    /\ UNCHANGED parservars

LexToken ==
    /\ lex_pc = "scan" /\ scan < Len(code)
    /\ mo.lastgroup \notin {"NEWLINE", "WHITESPACE", "MISMATCH"}
    /\ LET start_col == mo.start - current_position
           end_col   == mo.end - current_position
           value     == SubSeq(code, mo.start + 1, mo.end)
       IN  tokens' = Append(tokens,
                            Token(mo.lastgroup, value, line, start_col + 1, end_col))
    /\ scan' = mo.end
    /\ UNCHANGED <<code, line, current_position, lex_pc, err_line>>
    /\ UNCHANGED parservars

LexReturn ==
    /\ lex_pc = "scan" /\ scan = Len(code)
    /\ lex_pc' = "returned"
    /\ UNCHANGED <<code, scan, line, current_position, tokens, err_line>>
    /\ UNCHANGED parservars

\* all source texts of at most n characters
Sources(n) == UNION {[1..k -> SourceChars] : k \in 0..n}

LexInit ==
    /\ code \in Sources(MaxLen)
    /\ scan = 0
    /\ line = 1
    /\ current_position = 0
    /\ tokens = << >>
    /\ lex_pc = "scan"
    /\ err_line = 0
    /\ ptokens = << >>
    /\ position = 0
    /\ stack = << >>
    /\ ret = [set |-> FALSE, none |-> TRUE, text |-> << >>]
    /\ fault = "none"
    /\ dispatched = {}
    /\ lost = {}

LexNext ==
    \/ LexNewline
    \/ LexWhitespace
    \/ LexMismatch
    \/ LexToken
    \/ LexReturn

LexSpec == LexInit /\ [][LexNext]_vars

-----------------------------------------------------------------------------
(* Parser: values *)

\* a returned value: none models Python's None, text a Python string
NoValue == [set |-> FALSE, none |-> TRUE, text |-> << >>]

Value(text) == [set |-> TRUE, none |-> FALSE, text |-> text]

NoneValue == [set |-> TRUE, none |-> TRUE, text |-> << >>]

\* how an f-string renders an expression result
Format(v) == IF v.none THEN <<"None">> ELSE v.text

\* Parser.current_token: the token at the cursor, none past the end
HasToken(toks, pos) == pos < Len(toks)

current_token(toks, pos) == toks[pos + 1]

\* current_token() is a token of one of the given types
TokenIs(toks, pos, types) == HasToken(toks, pos) /\ current_token(toks, pos).type \in types

\* the token type used as it is, without .lower()
NotLowered(type) == type

\* token.type.lower()
Lower(type) ==
    CASE type = "T_Int"  -> "t_int"
      [] type = "T_Bool" -> "t_bool"
      [] OTHER           -> type

\* outcome of a production that makes no call needing the stack:
\* the cursor it leaves, its value, and the exception it raised if any
Outcome(pos, value, exc) == [pos |-> pos, value |-> value, fault |-> exc]

-----------------------------------------------------------------------------
(* Parser.parse_expression *)

\* a binary node that renders its operands in the wrong order
BinaryNodeSwapped(label, operator, left, right) ==
    [set |-> TRUE, none |-> FALSE,
     text |-> <<label, operator, "\n            ">> \o (IF right.none THEN <<"None">> ELSE right.text)
                  \o <<"\n            ">> \o (IF left.none THEN <<"None">> ELSE left.text)]

BinaryNode(label, operator, left, right) ==
    Value(<<label, operator, "\n            ">> \o Format(left)
              \o <<"\n            ">> \o Format(right))

RECURSIVE parse_expression(_, _)
parse_expression(toks, pos) ==
    IF ~HasToken(toks, pos)
    THEN Outcome(pos, NoneValue, "AttributeError")
    ELSE
    LET token == current_token(toks, pos)
        label == CASE token.type \in {"T_Add", "T_Sub"} -> "ArithmeticExpr: "
                   [] token.type \in {"T_And", "T_Or"} -> "LogicalExpr: "
                   [] OTHER -> "RelationalExpr: "
    IN  CASE token.type \in {"T_IntConstant", "T_Identifier"} ->
                Outcome(pos + 1, Value(<<"FieldAccess: ", token.value>>), "none")
          [] token.type \in {"T_Add", "T_Sub", "T_And", "T_Or", "T_LessEqual", "T_Equal"} ->
                LET left == parse_expression(toks, pos + 1)
                IN  IF left.fault # "none" THEN left
                    ELSE LET right == parse_expression(toks, left.pos)
                         IN  IF right.fault # "none" THEN right
                             ELSE Outcome(right.pos,
                                          BinaryNode(label, token.value, left.value, right.value),
                                          "none")
          [] token.type = "T_Not" ->
                LET expr == parse_expression(toks, pos + 1)
                IN  IF expr.fault # "none" THEN expr
                    ELSE Outcome(expr.pos,
                                 Value(<<"LogicalExpr: !\n            ">> \o Format(expr.value)),
                                 "none")
          [] OTHER -> Outcome(pos, NoneValue, "none")

\* Parser.parse_return, entered with the cursor on 'return'
parse_return(toks, pos) ==
    LET expression == parse_expression(toks, pos + 1)
    IN  IF expression.fault # "none" THEN expression
        ELSE Outcome(expression.pos,
                     Value(<<"\n        Return:\n            ">> \o Format(expression.value)),
                     "none")

\* Parser.parse_print, entered with the cursor on 'Print'
parse_print(toks, pos) ==
    LET expression == parse_expression(toks, pos + 1)
    IN  IF expression.fault # "none" THEN expression
        ELSE Outcome(expression.pos,
                     Value(<<"\n        Print:\n            ">> \o Format(expression.value)),
                     "none")

\* Parser.parse_expression_statement
parse_expression_statement(toks, pos) ==
    LET left == parse_expression(toks, pos)
    IN  IF left.fault # "none" THEN left
        ELSE IF ~HasToken(toks, left.pos)
        THEN Outcome(left.pos, NoneValue, "AttributeError")
        ELSE IF current_token(toks, left.pos).type = "T_Assign"
        THEN LET right == parse_expression(toks, left.pos + 1)
             IN  IF right.fault # "none" THEN right
                 ELSE Outcome(right.pos,
                              Value(<<"\n        ExpressionStatement:\n            AssignExpr: =\n                ">>
                                        \o Format(left.value)
                                        \o <<"\n                ">>
                                        \o Format(right.value)),
                              "none")
        ELSE Outcome(left.pos, left.value, "none")

-----------------------------------------------------------------------------
(* Parser: the call stack.  A frame records the production (fn), where it   *)
(* stands (pc) and its local text; a production that returns pops its frame *)
(* and leaves its value in ret for the caller's next step.                  *)

Top == stack[Len(stack)]

Pop == SubSeq(stack, 1, Len(stack) - 1)

SetTop(frame) == [stack EXCEPT ![Len(stack)] = frame]

Push(caller, callee) == Append(SetTop(caller), callee)

Running(fn, pc) ==
    /\ fault = "none"
    /\ stack # << >>
    /\ Top.fn = fn
    /\ Top.pc = pc

\* a consume that forgets to move the cursor
consume_stuck(pos) == pos

\* Parser.consume
consume(pos) == pos + 1

-----------------------------------------------------------------------------
(* Parser.parse *)

ParseStart ==
    /\ Running("parse", "start")
    /\ stack' = SetTop([fn |-> "parse", pc |-> "loop", program |-> <<"Program:">>])
    /\ UNCHANGED <<ptokens, position, ret, fault, dispatched, lost>>
    /\ UNCHANGED lexvars

\* line 105: a token that is neither int nor void is skipped
ParseSkip ==
    /\ Running("parse", "loop")
    /\ HasToken(ptokens, position)
    /\ ~TokenIs(ptokens, position, {"T_Int", "T_Void"})
    /\ position' = consume(position)
    /\ dispatched' = dispatched \cup {position}
    /\ UNCHANGED <<ptokens, stack, ret, fault, lost>>
    /\ UNCHANGED lexvars

\* line 103: call parse_declaration_or_function
ParseCall ==
    /\ Running("parse", "loop")
    /\ TokenIs(ptokens, position, {"T_Int", "T_Void"})
    /\ stack' = Push([Top EXCEPT !.pc = "await"],
                     [fn |-> "parse_declaration_or_function", pc |-> "start"])
    /\ dispatched' = dispatched \cup {position}
    /\ UNCHANGED <<ptokens, position, ret, fault, lost>>
    /\ UNCHANGED lexvars

\* line 103: program += the value returned; str + None raises TypeError
ParseAppend ==
    /\ Running("parse", "await")
    /\ ret.set
    /\ IF ret.none
       THEN /\ fault' = "TypeError"
            /\ UNCHANGED stack
       ELSE /\ stack' = SetTop([Top EXCEPT !.pc = "loop", !.program = @ \o ret.text])
            /\ UNCHANGED fault
    /\ ret' = NoValue
    /\ UNCHANGED <<ptokens, position, dispatched, lost>>
    /\ UNCHANGED lexvars

\* line 106: the loop ends when the tokens are exhausted
ParseDone ==
    /\ Running("parse", "loop")
    /\ ~HasToken(ptokens, position)
    /\ stack' = Pop
    /\ ret' = Value(Top.program)
    /\ UNCHANGED <<ptokens, position, fault, dispatched, lost>>
    /\ UNCHANGED lexvars

-----------------------------------------------------------------------------
(* Parser.parse_declaration_or_function: entered on an int or void token *)

\* line 115: token.type read when no token follows the type and the name
DeclFault ==
    /\ Running("parse_declaration_or_function", "start")
    /\ ~HasToken(ptokens, consume(consume(position)))
    /\ position' = consume(consume(position))
    /\ fault' = "AttributeError"
    /\ UNCHANGED <<ptokens, stack, ret, dispatched, lost>>
    /\ UNCHANGED lexvars

\* line 116: '(' follows, call parse_function
DeclFunction ==
    /\ Running("parse_declaration_or_function", "start")
    /\ TokenIs(ptokens, consume(consume(position)), {"T_LParen"})
    /\ LET identifier == current_token(ptokens, consume(position))
       IN  stack' = Push([Top EXCEPT !.pc = "await"],
                         [fn |-> "parse_function", pc |-> "start", name |-> identifier.value])
    /\ position' = consume(consume(position))
    /\ UNCHANGED <<ptokens, ret, fault, dispatched, lost>>
    /\ UNCHANGED lexvars

\* lines 117-119: ';' follows, a variable declaration
DeclVariable ==
    /\ Running("parse_declaration_or_function", "start")
    /\ TokenIs(ptokens, consume(consume(position)), {"T_Semicolon"})
    /\ LET identifier == current_token(ptokens, consume(position))
       IN  ret' = Value(<<"\n    Declaration: ", identifier.value>>)
    /\ position' = consume(consume(consume(position)))
    /\ stack' = Pop
    /\ UNCHANGED <<ptokens, fault, dispatched, lost>>
    /\ UNCHANGED lexvars

\* neither branch taken: the method ends without a return statement
DeclFallThrough ==
    /\ Running("parse_declaration_or_function", "start")
    /\ HasToken(ptokens, consume(consume(position)))
    /\ ~TokenIs(ptokens, consume(consume(position)), {"T_LParen", "T_Semicolon"})
    /\ position' = consume(consume(position))
    /\ ret' = NoneValue
    /\ stack' = Pop
    /\ UNCHANGED <<ptokens, fault, dispatched, lost>>
    /\ UNCHANGED lexvars

\* line 116: return what parse_function returned
DeclReturn ==
    /\ Running("parse_declaration_or_function", "await")
    /\ ret.set
    /\ stack' = Pop
    /\ UNCHANGED <<ptokens, position, ret, fault, dispatched, lost>>
    /\ UNCHANGED lexvars

-----------------------------------------------------------------------------
(* Parser.parse_function *)

\* lines 122-123
FunctionStart ==
    /\ Running("parse_function", "start")
    /\ stack' = SetTop([fn |-> "parse_function", pc |-> "loop",
                        function |-> <<"\n    Function: ", Top.name>>])
    /\ position' = consume(position)
    /\ UNCHANGED <<ptokens, ret, fault, dispatched, lost>>
    /\ UNCHANGED lexvars

\* line 124: the loop condition holds
FunctionTest ==
    /\ Running("parse_function", "loop")
    /\ HasToken(ptokens, position)
    /\ ~TokenIs(ptokens, position, {"T_RParen"})
    /\ stack' = SetTop([Top EXCEPT !.pc = "body"])
    /\ UNCHANGED <<ptokens, position, ret, fault, dispatched, lost>>
    /\ UNCHANGED lexvars

\* lines 131-132: the cursor after a parameter, past the comma if one follows
AfterParam(toks, pos) ==
    IF TokenIs(toks, pos, {"T_Comma"}) THEN consume(pos) ELSE pos

\* lines 126-132: a parameter
FunctionParam ==
    /\ Running("parse_function", "body")
    /\ TokenIs(ptokens, position, {"T_Int", "T_Bool"})
    /\ LET token     == current_token(ptokens, position)
           after_type == consume(position)
           after_name == consume(after_type)
       IN  IF ~HasToken(ptokens, after_type)
           THEN /\ position' = after_type
                /\ fault' = "AttributeError"
                /\ UNCHANGED stack
           ELSE IF ~HasToken(ptokens, after_name)
           THEN /\ position' = after_name
                /\ fault' = "AttributeError"
                /\ UNCHANGED stack
           ELSE /\ position' = AfterParam(ptokens, after_name)
                /\ stack' = SetTop([Top EXCEPT
                       !.pc = "loop",
                       !.function = @ \o <<"\n        Parameter: t_", Lower(token.type), " ",
                                          current_token(ptokens, after_type).value>>])
                /\ UNCHANGED fault
    /\ UNCHANGED <<ptokens, ret, dispatched, lost>>
    /\ UNCHANGED lexvars

\* line 126: the token is neither int nor bool, the body does nothing
FunctionNoParam ==
    /\ Running("parse_function", "body")
    /\ ~TokenIs(ptokens, position, {"T_Int", "T_Bool"})
    /\ stack' = SetTop([Top EXCEPT !.pc = "loop"])
    /\ UNCHANGED <<ptokens, position, ret, fault, dispatched, lost>>
    /\ UNCHANGED lexvars

\* lines 133-136: leave the loop, consume ')', parse the block if '{' follows
FunctionExit ==
    /\ Running("parse_function", "loop")
    /\ ~(HasToken(ptokens, position) /\ ~TokenIs(ptokens, position, {"T_RParen"}))
    /\ position' = consume(position)
    /\ IF TokenIs(ptokens, consume(position), {"T_LBrace"})
       THEN /\ stack' = Push([Top EXCEPT !.pc = "await"],
                             [fn |-> "parse_block", pc |-> "start"])
            /\ UNCHANGED ret
       ELSE /\ stack' = Pop
            /\ ret' = Value(Top.function)
    /\ UNCHANGED <<ptokens, fault, dispatched, lost>>
    /\ UNCHANGED lexvars

\* lines 135-136: function += block, return function
FunctionBlockDone ==
    /\ Running("parse_function", "await")
    /\ ret.set
    /\ stack' = Pop
    /\ ret' = Value(Top.function \o ret.text)
    /\ UNCHANGED <<ptokens, position, fault, dispatched, lost>>
    /\ UNCHANGED lexvars

-----------------------------------------------------------------------------
(* Parser.parse_block *)

StatementStarts == {"T_Int", "T_Void", "T_If", "T_Return", "T_Print", "T_Identifier"}

\* the loop condition of line 141
InBlock == HasToken(ptokens, position) /\ ~TokenIs(ptokens, position, {"T_RBrace"})

\* lines 139-140
BlockStart ==
    /\ Running("parse_block", "start")
    /\ stack' = SetTop([fn |-> "parse_block", pc |-> "loop", block |-> << >>, stmt |-> "none"])
    /\ position' = consume(position)
    /\ UNCHANGED <<ptokens, ret, fault, dispatched, lost>>
    /\ UNCHANGED lexvars

\* line 144: call parse_declaration_or_function
BlockDecl ==
    /\ Running("parse_block", "loop")
    /\ InBlock
    /\ TokenIs(ptokens, position, {"T_Int", "T_Void"})
    /\ stack' = Push([Top EXCEPT !.pc = "await", !.stmt = "declaration"],
                     [fn |-> "parse_declaration_or_function", pc |-> "start"])
    /\ dispatched' = dispatched \cup {position}
    /\ UNCHANGED <<ptokens, position, ret, fault, lost>>
    /\ UNCHANGED lexvars

\* line 146: call parse_if_else
BlockIf ==
    /\ Running("parse_block", "loop")
    /\ InBlock
    /\ TokenIs(ptokens, position, {"T_If"})
    /\ stack' = Push([Top EXCEPT !.pc = "await", !.stmt = "if"],
                     [fn |-> "parse_if_else", pc |-> "start"])
    /\ dispatched' = dispatched \cup {position}
    /\ UNCHANGED <<ptokens, position, ret, fault, lost>>
    /\ UNCHANGED lexvars

\* block += the outcome of a statement production that needs no frame
BlockStatement(outcome, stmt) ==
    /\ position' = outcome.pos
    /\ dispatched' = dispatched \cup {position}
    /\ IF outcome.fault # "none"
       THEN /\ fault' = outcome.fault
            /\ UNCHANGED stack
       ELSE IF outcome.value.none
       THEN /\ fault' = "TypeError"
            /\ UNCHANGED stack
       ELSE /\ stack' = SetTop([Top EXCEPT !.pc = "advance", !.stmt = stmt,
                                           !.block = @ \o outcome.value.text])
            /\ UNCHANGED fault
    /\ UNCHANGED <<ptokens, ret, lost>>
    /\ UNCHANGED lexvars

\* line 148
BlockReturn ==
    /\ Running("parse_block", "loop")
    /\ InBlock
    /\ TokenIs(ptokens, position, {"T_Return"})
    /\ BlockStatement(parse_return(ptokens, position), "return")

\* line 150
BlockPrint ==
    /\ Running("parse_block", "loop")
    /\ InBlock
    /\ TokenIs(ptokens, position, {"T_Print"})
    /\ BlockStatement(parse_print(ptokens, position), "print")

\* line 152
BlockExpressionStatement ==
    /\ Running("parse_block", "loop")
    /\ InBlock
    /\ TokenIs(ptokens, position, {"T_Identifier"})
    /\ BlockStatement(parse_expression_statement(ptokens, position), "expression")

\* no branch of lines 143-152 matches
BlockOther ==
    /\ Running("parse_block", "loop")
    /\ InBlock
    /\ ~TokenIs(ptokens, position, StatementStarts)
    /\ stack' = SetTop([Top EXCEPT !.pc = "advance", !.stmt = "none"])
    /\ dispatched' = dispatched \cup {position}
    /\ UNCHANGED <<ptokens, position, ret, fault, lost>>
    /\ UNCHANGED lexvars

\* lines 144, 146: block += the value returned; str + None raises TypeError
BlockAppend ==
    /\ Running("parse_block", "await")
    /\ ret.set
    /\ IF ret.none
       THEN /\ fault' = "TypeError"
            /\ UNCHANGED stack
       ELSE /\ stack' = SetTop([Top EXCEPT !.pc = "advance", !.block = @ \o ret.text])
            /\ UNCHANGED fault
    /\ ret' = NoValue
    /\ UNCHANGED <<ptokens, position, dispatched, lost>>
    /\ UNCHANGED lexvars

\* an iteration that leaves the cursor alone after a declaration or an if
BlockAdvanceAfterTerminator ==
    /\ Running("parse_block", "advance")
    /\ position' = IF Top.stmt \in {"declaration", "if"} THEN position ELSE position + 1
    /\ stack' = SetTop([Top EXCEPT !.pc = "loop"])
    /\ lost' = IF Top.stmt \in {"declaration", "if"} THEN lost \cup {position} ELSE lost
    /\ UNCHANGED <<ptokens, ret, fault, dispatched>>
    /\ UNCHANGED lexvars

\* line 153: the consume that ends every iteration
BlockAdvance ==
    /\ Running("parse_block", "advance")
    /\ position' = consume(position)
    /\ stack' = SetTop([Top EXCEPT !.pc = "loop"])
    /\ lost' = IF Top.stmt \in {"declaration", "if"} THEN lost \cup {position} ELSE lost
    /\ UNCHANGED <<ptokens, ret, fault, dispatched>>
    /\ UNCHANGED lexvars

\* lines 154-155: leave the loop, consume '}', return block
BlockExit ==
    /\ Running("parse_block", "loop")
    /\ ~InBlock
    /\ position' = consume(position)
    /\ stack' = Pop
    /\ ret' = Value(Top.block)
    /\ UNCHANGED <<ptokens, fault, dispatched, lost>>
    /\ UNCHANGED lexvars

-----------------------------------------------------------------------------
(* Parser.parse_if_else *)

IfElseText(condition, block, else_block) ==
    <<"\n        IfElse:\n            ">> \o Format(condition)
        \o <<"\n            Block:\n">> \o block
        \o <<"\n            Block:\n">> \o else_block

\* lines 158-160: consume 'if', parse the condition, call parse_block
IfStart ==
    /\ Running("parse_if_else", "start")
    /\ LET condition == parse_expression(ptokens, consume(position))
       IN  /\ position' = condition.pos
           /\ IF condition.fault # "none"
              THEN /\ fault' = condition.fault
                   /\ UNCHANGED stack
              ELSE /\ stack' = Push([fn |-> "parse_if_else", pc |-> "then",
                                     condition |-> condition.value, block |-> << >>],
                                    [fn |-> "parse_block", pc |-> "start"])
                   /\ UNCHANGED fault
    /\ UNCHANGED <<ptokens, ret, dispatched, lost>>
    /\ UNCHANGED lexvars

\* lines 160-165: a block has returned; parse the else block if T_Else follows
IfResume ==
    /\ fault = "none" /\ stack # << >>
    /\ Top.fn = "parse_if_else" /\ Top.pc \in {"then", "else"}
    /\ ret.set
    /\ IF Top.pc = "then" /\ TokenIs(ptokens, position, {"T_Else"})
       THEN /\ position' = consume(position)
            /\ stack' = Push([Top EXCEPT !.pc = "else", !.block = ret.text],
                             [fn |-> "parse_block", pc |-> "start"])
            /\ ret' = NoValue
       ELSE /\ stack' = Pop
            /\ ret' = IF Top.pc = "then"
                      THEN Value(IfElseText(Top.condition, ret.text, << >>))
                      ELSE Value(IfElseText(Top.condition, Top.block, ret.text))
            /\ UNCHANGED position
    /\ UNCHANGED <<ptokens, fault, dispatched, lost>>
    /\ UNCHANGED lexvars

-----------------------------------------------------------------------------
(* Token sequences handed to the parser *)

Tok(type, value) == [type |-> type, value |-> value]

tInt       == Tok("T_Int", "int")
tVoid      == Tok("T_Void", "void")
tBool      == Tok("T_Bool", "bool")
tIf        == Tok("T_If", "if")
tReturn    == Tok("T_Return", "return")
tPrint     == Tok("T_Print", "Print")
tAssign    == Tok("T_Assign", "=")
tSemicolon == Tok("T_Semicolon", ";")
tComma     == Tok("T_Comma", ",")
tLParen    == Tok("T_LParen", "(")
tRParen    == Tok("T_RParen", ")")
tLBrace    == Tok("T_LBrace", "{")
tRBrace    == Tok("T_RBrace", "}")
tNot       == Tok("T_Not", "!")
tId(name)  == Tok("T_Identifier", name)

\* all sequences of at most n tokens of the set S
SeqsUpTo(S, n) == UNION {[1..k -> S] : k \in 0..n}

MaxTop == 4

MaxBody == 3

MaxStmts == 2

MaxParams == 2

MaxExpr == 5

TopTokens == {tInt, tVoid, tId("a"), tLParen, tRParen, tSemicolon, tAssign}

BlockTokens ==
    {tInt, tId("a"), tSemicolon, tIf, tReturn, tPrint, tLBrace, tRBrace, tAssign, tNot}

\* arbitrary token sequences met at top level
TopInputs == SeqsUpTo(TopTokens, MaxTop)

\* statements and stray tokens a function body is put together from
BodyParts ==
    { <<tInt, tId("a"), tSemicolon>>,
      <<tIf, tId("a"), tLBrace, tRBrace>>,
      <<tIf, tNot, tId("a"), tLBrace, tReturn, tId("a"), tSemicolon, tRBrace>>,
      <<tReturn, tId("a"), tSemicolon>>,
      <<tPrint, tId("a"), tSemicolon>>,
      <<tId("a"), tAssign, tId("b"), tSemicolon>>,
      <<tId("b"), tSemicolon>>,
      <<tRBrace>> }

RECURSIVE Flatten(_)
Flatten(parts) ==
    IF parts = << >> THEN << >> ELSE Head(parts) \o Flatten(Tail(parts))

\* a function whose body is an arbitrary short token sequence, or a few statements
BlockInputs ==
    {<<tVoid, tId("f"), tLParen, tRParen, tLBrace>> \o body :
        body \in SeqsUpTo(BlockTokens, MaxBody)
                  \cup {Flatten(parts) : parts \in SeqsUpTo(BodyParts, MaxStmts)}}

\* a parameter: its type, its name, and whether a comma follows it
ParamSpecs == [type : {tInt, tBool}, name : {"a", "b"}, comma : BOOLEAN]

RECURSIVE ParamTokens(_)
ParamTokens(ps) ==
    IF ps = << >> THEN << >>
    ELSE <<Head(ps).type, tId(Head(ps).name)>>
             \o (IF Head(ps).comma THEN <<tComma>> ELSE << >>)
             \o ParamTokens(Tail(ps))

\* type name ( parameters ) { return r ; }
FunctionTokens(type, name, ps, r) ==
    <<type, tId(name), tLParen>> \o ParamTokens(ps)
        \o <<tRParen, tLBrace, tReturn, tId(r), tSemicolon, tRBrace>>

FunctionInputs ==
    {FunctionTokens(type, "f", ps, r) :
        type \in {tInt, tVoid}, ps \in SeqsUpTo(ParamSpecs, MaxParams), r \in {"a", "b"}}

ParseInit ==
    /\ ptokens \in TopInputs \cup BlockInputs \cup FunctionInputs
    /\ position = 0
    /\ stack = <<[fn |-> "parse", pc |-> "start"]>>
    /\ ret = NoValue
    /\ fault = "none"
    /\ dispatched = {}
    /\ lost = {}
    /\ code = << >>
    /\ scan = 0
    /\ line = 1
    /\ current_position = 0
    /\ tokens = << >>
    /\ lex_pc = "idle"
    /\ err_line = 0

ParseNext ==
    \/ ParseStart
    \/ ParseSkip
    \/ ParseCall
    \/ ParseAppend
    \/ ParseDone
    \/ DeclFault
    \/ DeclFunction
    \/ DeclVariable
    \/ DeclFallThrough
    \/ DeclReturn
    \/ FunctionStart
    \/ FunctionTest
    \/ FunctionParam
    \/ FunctionNoParam
    \/ FunctionExit
    \/ FunctionBlockDone
    \/ BlockStart
    \/ BlockDecl
    \/ BlockIf
    \/ BlockReturn
    \/ BlockPrint
    \/ BlockExpressionStatement
    \/ BlockOther
    \/ BlockAppend
    \/ BlockAdvance
    \/ BlockExit
    \/ IfStart
    \/ IfResume

ParseSpec == ParseInit /\ [][ParseNext]_vars

-----------------------------------------------------------------------------
(* Parser.parse_expression called on its own, with the cursor at 0 *)

tInt1 == Tok("T_IntConstant", "1")
tAdd  == Tok("T_Add", "+")
tAnd  == Tok("T_And", "&&")
tEq   == Tok("T_LessEqual", "==")

ExprTokens == {tId("a"), tInt1, tAdd, tAnd, tEq, tNot, tSemicolon}

ExpressionCall ==
    /\ Running("parse_expression", "start")
    /\ LET outcome == parse_expression(ptokens, position)
       IN  /\ position' = outcome.pos
           /\ fault' = outcome.fault
           /\ IF outcome.fault # "none"
              THEN UNCHANGED <<stack, ret>>
              ELSE /\ stack' = Pop
                   /\ ret' = outcome.value
    /\ UNCHANGED <<ptokens, dispatched, lost>>
    /\ UNCHANGED lexvars

ExprInit ==
    /\ ptokens \in SeqsUpTo(ExprTokens, MaxExpr)
    /\ position = 0
    /\ stack = <<[fn |-> "parse_expression", pc |-> "start"]>>
    /\ ret = NoValue
    /\ fault = "none"
    /\ dispatched = {}
    /\ lost = {}
    /\ code = << >>
    /\ scan = 0
    /\ line = 1
    /\ current_position = 0
    /\ tokens = << >>
    /\ lex_pc = "idle"
    /\ err_line = 0

ExprNext == ExpressionCall

ExprSpec == ExprInit /\ [][ExprNext]_vars

-----------------------------------------------------------------------------
(* Reference notions the scanner's properties are stated against.  They are *)
(* computed from the source text alone, without the token specification.    *)

ReservedWords ==
    { <<"v","o","i","d">>, <<"i","n","t">>, <<"b","o","o","l">>, <<"i","f">>,
      <<"f","o","r">>, <<"r","e","t","u","r","n">>, <<"P","r","i","n","t">> }

KeywordKind(w) ==
    CASE w = <<"v","o","i","d">> -> "T_Void"
      [] w = <<"i","n","t">> -> "T_Int"
      [] w = <<"b","o","o","l">> -> "T_Bool"
      [] w = <<"i","f">> -> "T_If"
      [] w = <<"f","o","r">> -> "T_For"
      [] w = <<"r","e","t","u","r","n">> -> "T_Return"
      [] w = <<"P","r","i","n","t">> -> "T_Print"

BlankChars == {" ", "\t", "\n"}

\* characters that stand for themselves in some lexical pattern
SingleChars ==
    WordChars \cup BlankChars
        \cup {"=", "<", ">", "!", "+", "-", "*", "/", "%", ";", ",", "(", ")", "{", "}"}

\* 1-based index of the first character at or after offset p that belongs to
\* no lexical match (a character outside every pattern, a lone & or |, a
\* double quote that is never closed); 0 when there is none
RECURSIVE Unmatched(_, _)
Unmatched(s, p) ==
    IF p >= Len(s) THEN 0
    ELSE LET c == s[p + 1]
             closers == {j \in (p + 2)..Len(s) : s[j] = "\""}
         IN  CASE c = "\"" ->
                    IF closers = {} THEN p + 1
                    ELSE Unmatched(s, CHOOSE j \in closers : \A m \in closers : j <= m)
               [] c \in {"&", "|"} ->
                    IF p + 2 <= Len(s) /\ s[p + 2] = c
                    THEN Unmatched(s, p + 2) ELSE p + 1
               [] c \in SingleChars -> Unmatched(s, p + 1)
               [] OTHER -> p + 1

\* 1-based line of the character at offset p
TrueLine(s, p) == 1 + Cardinality({j \in 1..p : s[j] = "\n"})

\* 1-based column of the character at offset p, counted from the last newline before it
TrueCol(s, p) ==
    LET nls == {j \in 1..p : s[j] = "\n"}
        origin == IF nls = {} THEN 0 ELSE CHOOSE j \in nls : \A m \in nls : m <= j
    IN  p - origin + 1

\* the source from index p on with every blank and newline removed
RECURSIVE StripBlanks(_, _)
StripBlanks(s, p) ==
    IF p > Len(s) THEN << >>
    ELSE (IF s[p] \in BlankChars THEN << >> ELSE <<s[p]>>) \o StripBlanks(s, p + 1)

\* the same, keeping the blanks and newlines that lie between double quotes
RECURSIVE StripOutsideStrings(_, _, _)
StripOutsideStrings(s, p, quoted) ==
    IF p > Len(s) THEN << >>
    ELSE LET c == s[p]
         IN  IF quoted
             THEN <<c>> \o StripOutsideStrings(s, p + 1, c # "\"")
             ELSE (IF c \in BlankChars THEN << >> ELSE <<c>>)
                      \o StripOutsideStrings(s, p + 1, c = "\"")

\* the text of the tokens of ts, in order
RECURSIVE Spelling(_)
Spelling(ts) ==
    IF ts = << >> THEN << >> ELSE Head(ts).value \o Spelling(Tail(ts))

-----------------------------------------------------------------------------
(* Scanner properties *)

\* C1 (as stated): a source in which every character is covered by a lexical
\* match is tokenized without an error, and the tokens' text read in order is
\* the source with its blanks and newlines removed.
C1_Original ==
    (lex_pc # "scan" /\ Unmatched(code, 0) = 0)
        => /\ lex_pc = "returned"
           /\ Spelling(tokens) = StripBlanks(code, 1)

\* C1 (amended): a source in which every character belongs to a lexical match
\* is tokenized without an error, and the tokens' text read in order is the
\* source with the blanks and newlines outside string constants removed.
C1_Amended ==
    (lex_pc # "scan" /\ Unmatched(code, 0) = 0)
        => /\ lex_pc = "returned"
           /\ Spelling(tokens) = StripOutsideStrings(code, 1, FALSE)

C1_Witness ==
    /\ lex_pc = "returned"
    /\ Unmatched(code, 0) = 0
    /\ Len(Spelling(tokens)) < Len(code)
    /\ \E k \in 1..Len(tokens) :
          /\ tokens[k].type = "T_StringConstant"
          /\ \E j \in 1..Len(tokens[k].value) : tokens[k].value[j] = " "

\* C2: a source with a character that belongs to no lexical match makes
\* tokenize raise, and the error names the 1-based line of the first such
\* character (1 + the number of newlines before it).
C2_MismatchLine ==
    (lex_pc # "scan" /\ Unmatched(code, 0) > 0)
        => /\ lex_pc = "raised"
           /\ err_line = TrueLine(code, Unmatched(code, 0) - 1)

\* C3: a token whose text is a reserved word always has that word's keyword
\* kind, so no T_Identifier token spells a reserved word.
C3_ReservedNeverIdentifier ==
    \A k \in 1..Len(tokens) :
        tokens[k].value \in ReservedWords
            => tokens[k].type = KeywordKind(tokens[k].value)

\* C8: every token appended by tokenize carries the line and the 1-based
\* inclusive column span of the place in the source where its text starts.
C8_TruePosition ==
    [][Len(tokens') > Len(tokens)
         => LET t == tokens'[Len(tokens')]
            IN  /\ t.line = TrueLine(code, scan)
                /\ t.start_col = TrueCol(code, scan)
                /\ t.end_col = t.start_col + Len(t.value) - 1]_vars

-----------------------------------------------------------------------------
(* Reference notions the parser's properties are stated against *)

\* the parse has returned or raised
Finished == stack = << >> \/ fault # "none"

\* operands a token asks for, judged by its spelling; -1 for a token that
\* cannot occur in an expression
OperandCount(token) ==
    CASE token.type \in {"T_IntConstant", "T_Identifier"} -> 0
      [] token.value = "!" -> 1
      [] token.value \in {"+", "-", "&&", "||", "<=", ">=", "==", "!="} -> 2
      [] OTHER -> -1

\* operands still missing after the tokens toks[p+1..q] of a prefix expression
RECURSIVE Missing(_, _, _)
Missing(toks, p, q) ==
    IF q <= p THEN 1 ELSE Missing(toks, p, q - 1) + OperandCount(toks[q]) - 1

\* end of the well-formed prefix expression that starts at position p: the
\* first q at which no operand is missing; 0 when there is no such expression
ExprEnd(toks, p) ==
    LET ends == {q \in (p + 1)..Len(toks) :
                    /\ \A j \in (p + 1)..q : OperandCount(toks[j]) >= 0
                    /\ Missing(toks, p, q) = 0}
    IN  IF ends = {} THEN 0 ELSE CHOOSE q \in ends : \A m \in ends : q <= m

NodeLabel(spelling) ==
    CASE spelling \in {"+", "-"} -> "ArithmeticExpr: "
      [] spelling \in {"&&", "||"} -> "LogicalExpr: "
      [] spelling \in {"<=", ">=", "==", "!="} -> "RelationalExpr: "

\* text of the node for the well-formed expression toks[p+1..q]
RECURSIVE Render(_, _, _)
Render(toks, p, q) ==
    LET token == toks[p + 1]
    IN  CASE OperandCount(token) = 0 -> <<"FieldAccess: ", token.value>>
          [] OperandCount(token) = 1 ->
                <<"LogicalExpr: !\n            ">> \o Render(toks, p + 1, q)
          [] OTHER ->
                LET m == ExprEnd(toks, p + 1)
                IN  <<NodeLabel(token.value), token.value, "\n            ">>
                        \o Render(toks, p + 1, m)
                        \o <<"\n            ">>
                        \o Render(toks, m, q)

RECURSIVE ParameterText(_)
ParameterText(ps) ==
    IF ps = << >> THEN << >>
    ELSE <<"\n        Parameter: t_",
           IF Head(ps).type = tInt THEN "t_int" ELSE "t_bool", " ", Head(ps).name>>
             \o ParameterText(Tail(ps))

\* Program with one Function node: its parameters in order, then its Return
FunctionText(name, ps, r) ==
    <<"Program:", "\n    Function: ", name>> \o ParameterText(ps)
        \o <<"\n        Return:\n            ", "FieldAccess: ", r>>

NoDeclarationStart ==
    \A k \in 1..Len(ptokens) : ptokens[k].type \notin {"T_Int", "T_Void"}

-----------------------------------------------------------------------------
(* Parser properties *)

\* C4: when parse_declaration_or_function returns nothing to parse (an int or
\* void, one token, then a token that is neither '(' nor ';'), parse raises no
\* fault and goes on with its loop, the program text unchanged.
C4_FallThroughContinues ==
    [][(Running("parse", "await") /\ ret.set /\ ret.none)
          => /\ fault' = "none"
             /\ stack' = SetTop([Top EXCEPT !.pc = "loop"])]_vars

\* C5: a top-level token that is neither int nor void moves the cursor by
\* exactly one and leaves the program text alone; a token sequence without
\* int or void parses to exactly the text Program: without a fault.
C5_SkipsUnrecognized ==
    [][/\ (Running("parse", "loop") /\ HasToken(ptokens, position)
              /\ ~TokenIs(ptokens, position, {"T_Int", "T_Void"}))
          => /\ position' = position + 1
             /\ stack' = stack
             /\ fault' = "none"
       /\ (NoDeclarationStart /\ Finished')
          => /\ fault' = "none"
             /\ ret' = Value(<<"Program:">>)
             /\ position' = Len(ptokens)]_vars

C5_Witness ==
    /\ Finished
    /\ NoDeclarationStart
    /\ Len(ptokens) >= 3
    /\ position = Len(ptokens)
    /\ ret = Value(<<"Program:">>)

\* C6: type name ( n parameters, commas optional ) { return r ; } parses to a
\* Program with one Function of that name holding the n parameters in source
\* order and then a Return of FieldAccess r, with every token consumed.
C6_FunctionTree ==
    (Finished /\ ptokens \in FunctionInputs) =>
        \A type \in {tInt, tVoid}, ps \in SeqsUpTo(ParamSpecs, MaxParams), r \in {"a", "b"} :
            ptokens = FunctionTokens(type, "f", ps, r)
                => /\ fault = "none"
                   /\ ret = Value(FunctionText("f", ps, r))
                   /\ position = Len(ptokens)

C6_Witness ==
    /\ Finished
    /\ \E type \in {tInt, tVoid}, ps \in SeqsUpTo(ParamSpecs, MaxParams), r \in {"a", "b"} :
          /\ Len(ps) = 2
          /\ ps[1].comma /\ ~ps[2].comma
          /\ ps[1].type # ps[2].type
          /\ ptokens = FunctionTokens(type, "f", ps, r)
          /\ ret = Value(FunctionText("f", ps, r))

\* C7: called on the first token of a well-formed prefix expression,
\* parse_expression raises nothing, leaves the cursor just past the
\* expression, and returns its node with the left operand before the right.
C7_PrefixExpression ==
    (Finished /\ ExprEnd(ptokens, 0) > 0)
        => /\ fault = "none"
           /\ position = ExprEnd(ptokens, 0)
           /\ ret = Value(Render(ptokens, 0, ExprEnd(ptokens, 0)))

C7_Witness ==
    /\ Finished
    /\ ExprEnd(ptokens, 0) = 5
    /\ OperandCount(ptokens[1]) = 2
    /\ OperandCount(ptokens[2]) = 2
    /\ ptokens[3] # ptokens[5]
    /\ ret = Value(Render(ptokens, 0, 5))

\* C9: the cursor never moves back, and every iteration of the top-level
\* loop, of the parameter loop and of the statement loop that does not raise
\* moves it forward by at least one token.
C9_LoopsAdvance ==
    [][/\ position' >= position
       /\ (Running("parse", "loop") /\ HasToken(ptokens, position)
              /\ ~TokenIs(ptokens, position, {"T_Int", "T_Void"}))
          => position' > position
       /\ Running("parse_declaration_or_function", "start") => position' > position
       /\ (Running("parse_function", "body") /\ fault' = "none") => position' > position
       /\ Running("parse_block", "advance") => position' > position]_vars

\* C10: the consume that ends an iteration of parse_block moves the cursor
\* exactly one token past where the statement left it, and a token consumed
\* that way after a declaration or an if is never dispatched on.
C10_AdvanceOnceMore ==
    [][/\ Running("parse_block", "advance") => position' = position + 1
       /\ lost' \cap dispatched' = {}
       /\ (Running("parse_block", "advance") /\ Top.stmt \in {"declaration", "if"})
          => position \in lost']_vars

C10_Witness ==
    /\ Finished
    /\ fault = "none"
    /\ \E p \in lost : /\ p < Len(ptokens)
                       /\ ptokens[p + 1].type = "T_Return"
                       /\ ptokens[p].type = "T_Semicolon"
                       /\ p \notin dispatched

=============================================================================
